---- MODULE Spec2Model ----
(***************************************************************************)
(* Exact-cover reductions of dlx-python's examples: t-(v,k,1) designs      *)
(* (examples/design.py) and Sudoku (examples/sudoku.py), over the DLX      *)
(* engine and the pyncomb subset oracle they call.                         *)
(*                                                                         *)
(* Python lists are sequences (1-based here, 0-based there): the element   *)
(* at Python index n is the element n+1 of the sequence.  Row and column   *)
(* indices, points and ranks keep their 0-based Python values.             *)
(***************************************************************************)
EXTENDS Integers, Sequences, FiniteSets, TLC

VARIABLES
    mode,            \* which program runs: "design", "sudoku" or "check"
    pc,              \* position of the run
    t, v, k, fixings,        \* DesignDLX.__init__ arguments
    dim, board,              \* DLXsudoku.__init__ arguments (board is `grid`)
    columns,         \* DLX columns: sequence of <<name, kind>>
    rows,            \* DLX rows: sequence of column-index sequences
    N,               \* DLX row names, by row index
    rowsByLexOrder,  \* DesignDLX.rowsByLexOrder
    fixedBlocks,     \* DesignDLX.fixedBlocks
    block, i,        \* locals of the fixing loop
    forcedBlocks,    \* the block lists handed to rank, in order
    partialsolution, \* DLX: rows forced by useRow, then rows chosen by solve
    stack,           \* DLX solve: one frame per search level
    nsol, sol,       \* consumer of solve(): solutions seen, and the last one
    runs, prev,      \* rebuilds so far; solution count of an earlier run
    grid, result     \* checkSudoku's argument and return value

vars == <<mode, pc, t, v, k, fixings, dim, board, columns, rows, N,
          rowsByLexOrder, fixedBlocks, block, i, forcedBlocks,
          partialsolution, stack, nsol, sol, runs, prev, grid, result>>

\* Bounds of the model.
MaxV == 7
MaxRuns == 2
MaxBlanks == 4
MaxEdits == 2
MaxIter == 8

----------------------------------------------------------------------------
\* Python built-ins used by the sources.

Max(a, b) == IF a >= b THEN a ELSE b
Min(a, b) == IF a <= b THEN a ELSE b

Range(s) == {s[n] : n \in DOMAIN s}

\* range(a, b)
PyRange(a, b) == [n \in 1..Max(b - a, 0) |-> a + n - 1]

\* [x] * n
PyRepeat(x, n) == [m \in 1..Max(n, 0) |-> x]

\* L[a:] = new
PySetSliceFrom(L, a, new) ==
    LET start == IF a < 0 THEN Max(Len(L) + a, 0) ELSE Min(a, Len(L))
    IN  SubSeq(L, 1, start) \o new

\* reduce(lambda x,y: x+y, lists, [])
RECURSIVE Flatten(_)
Flatten(lists) ==
    IF lists = <<>> THEN <<>> ELSE Head(lists) \o Flatten(Tail(lists))

\* The sequence listing a finite set of integers in increasing order.
RECURSIVE SortedSeq(_)
SortedSeq(S) ==
    IF S = {} THEN <<>>
    ELSE LET m == CHOOSE x \in S : \A y \in S : x <= y
         IN  <<m>> \o SortedSeq(S \ {m})

----------------------------------------------------------------------------
\* The subset oracle (pyncomb).

\* The binomial coefficient C(n, m).
RECURSIVE Binom(_, _)
Binom(n, m) ==
    IF m < 0 \/ m > n THEN 0
    ELSE IF m = 0 THEN 1
    ELSE (Binom(n - 1, m - 1) * n) \div m

\* pyncomb.ksubsetlex.all(B, m): the m-subsets of the base list B, each as an
\* increasing list, in lexicographic order.
RECURSIVE AllLex(_, _)
AllLex(B, m) ==
    IF m = 0 THEN << <<>> >>
    ELSE IF Len(B) < m THEN <<>>
    ELSE LET withHead == AllLex(Tail(B), m - 1)
         IN  [n \in 1..Len(withHead) |-> <<Head(B)>> \o withHead[n]]
             \o AllLex(Tail(B), m)

\* An increasing list of m points of 0..n-1.
IsKSubset(n, m, K) ==
    /\ Len(K) = m
    /\ \A a \in 1..Len(K) : K[a] \in 0..(n - 1)
    /\ \A a \in 1..(Len(K) - 1) : K[a] < K[a + 1]

RECURSIVE SumSeq(_)
SumSeq(s) == IF s = <<>> THEN 0 ELSE Head(s) + SumSeq(Tail(s))

\* pyncomb.ksubsetlex.rank(n, K): the position of K among the len(K)-subsets
\* of 0..n-1 in lexicographic order.
Rank(n, K) ==
    LET m == Len(K)
        lo(a) == IF a = 1 THEN 0 ELSE K[a - 1] + 1
        term(a) == SumSeq([b \in 1..Max(K[a] - lo(a), 0) |->
                              Binom(n - (lo(a) + b - 1) - 1, m - a)])
    IN  SumSeq([a \in 1..m |-> term(a)])

----------------------------------------------------------------------------
\* The exact-cover engine (dlx.DLX).

\* The columns row (index) r covers.
RowCols(r) == Range(rows[r + 1])

Covered(ps) == UNION {RowCols(r) : r \in Range(ps)}

\* Rows still open to choice: not selected, and in conflict with no selected row.
ActiveRows(ps) ==
    LET cov == Covered(ps)
    IN  {r \in 0..(Len(rows) - 1) : r \notin Range(ps) /\ RowCols(r) \cap cov = {}}

\* Primary columns no selected row covers.
Uncovered(ps) ==
    LET cov == Covered(ps)
    IN  {c \in 0..(Len(columns) - 1) : columns[c + 1][2] = "primary" /\ c \notin cov}

\* The column solve() branches on: fewest candidate rows, lowest index first.
ChooseColumn(ps) ==
    LET act == ActiveRows(ps)
        unc == Uncovered(ps)
        size == [c \in unc |-> Cardinality({r \in act : c \in RowCols(r)})]
        least == CHOOSE n \in Range(size) : \A m \in Range(size) : n <= m
    IN  CHOOSE c \in unc : size[c] = least /\ \A d \in unc : size[d] = least => c <= d

\* The rows solve() tries at the chosen column, in row order.
Candidates(ps) ==
    LET c == ChooseColumn(ps)
    IN  SortedSeq({r \in ActiveRows(ps) : c \in RowCols(r)})

\* DLX.useRow(r): the row joins every solution.
UseRow(ps, r) == Append(ps, r)

\* DLX.getRowList(r): the names of the columns of row r.
GetRowList(r) == [n \in 1..Len(rows[r + 1]) |-> columns[rows[r + 1][n] + 1][1]]

----------------------------------------------------------------------------
\* examples/design.py

\* design.py:59
DesignColumns(tt, vv) == AllLex(PyRange(0, vv), tt)

\* DesignRow without createLookup: the t-subsets of 0..k-1 are ranked in
\* place of the t-subsets of S.
DesignRowNoLookup(tt, vv, S) ==
    LET Ts == AllLex(PyRange(0, Len(S)), tt)
    IN  [n \in 1..Len(Ts) |-> Rank(vv, Ts[n])]

\* design.py:62, one row: the ranks of the t-subsets of the k-subset S.
DesignRow(tt, vv, S) ==
    LET Ts == AllLex(S, tt)
    IN  [n \in 1..Len(Ts) |-> Rank(vv, Ts[n])]

\* design.py:62, all rows, one per k-subset in lexicographic order.
DesignRows(tt, vv, kk) ==
    LET Ss == AllLex(PyRange(0, vv), kk)
    IN  [n \in 1..Len(Ss) |-> DesignRow(tt, vv, Ss[n])]

\* design.py:74
InitialBlock(tt, kk) == PyRange(0, tt - 1) \o PyRepeat(0, kk - tt + 1)

\* design.py:75
HorizontalGuard(tt, vv, kk, ii) == (ii + 1) * kk - ii * tt + (ii - 1) < vv

\* design.py:77
HorizontalBlock(tt, kk, ii, blk) ==
    PySetSliceFrom(blk, tt - 1,
        PyRange(ii * kk - (ii - 1) * tt + (ii - 1), (ii + 1) * kk - ii * tt + ii))

\* design.py:89
VerticalBlock(tt, kk, blk) ==
    PySetSliceFrom(blk, tt - 2,
        [n \in 1..Max(kk - tt + 2, 0) |-> (n - 1) * kk - (n - 2) * tt + (n - 2)])

\* DecodeBlock keeping the row's first t-set only, not the union of all.
DecodeBlockFirstOnly(r) ==
    IF GetRowList(r) = <<>> THEN {} ELSE Range(GetRowList(r)[1])

\* design.py:100, one row: the union of the row's t-sets.
DecodeBlock(r) == Range(Flatten(GetRowList(r)))

\* Whether rank(v, blk) raises.  On a subset of 0..v-1 it never does; on any
\* other list the oracle's contract says nothing, and it either raises
\* (ValueError) or returns the value its formula gives.
RankRaises(blk) == IF IsKSubset(v, Len(blk), blk) THEN {FALSE} ELSE BOOLEAN

\* ForceBlock without the useRow call: the rank is recorded, no row is forced.
ForceBlockNoUseRow(blk, next) ==
    /\ forcedBlocks' = Append(forcedBlocks, blk)
    /\ \E raises \in RankRaises(blk) :
          IF raises
          THEN /\ pc' = "ValueError"
               /\ UNCHANGED <<fixedBlocks, partialsolution>>
          ELSE /\ fixedBlocks' = Append(fixedBlocks, Rank(v, blk))
               /\ partialsolution' = partialsolution
               /\ pc' = IF Rank(v, blk) < Len(rowsByLexOrder)
                        THEN next ELSE "IndexError"

\* design.py:80-82 and 90-92: the block is ranked, the rank is stored, the row
\* of that rank is forced.  rowsByLexOrder[r] with r past the last row is an
\* IndexError, raised after the rank is stored.
ForceBlock(blk, next) ==
    /\ forcedBlocks' = Append(forcedBlocks, blk)
    /\ \E raises \in RankRaises(blk) :
          IF raises
          THEN /\ pc' = "ValueError"
               /\ UNCHANGED <<fixedBlocks, partialsolution>>
          ELSE /\ fixedBlocks' = Append(fixedBlocks, Rank(v, blk))
               /\ IF Rank(v, blk) < Len(rowsByLexOrder)
                  THEN /\ partialsolution' =
                              UseRow(partialsolution,
                                     rowsByLexOrder[Rank(v, blk) + 1])
                       /\ pc' = next
                  ELSE /\ partialsolution' = partialsolution
                       /\ pc' = "IndexError"

----------------------------------------------------------------------------
\* examples/sudoku.py

\* A character is its Unicode code point; Chr[d] is the ASCII digit d.
Chr == [d \in 0..9 |-> 48 + d]

\* The code points of the characters whose decimal digit value is 0 (Unicode
\* 14.0); the nine code points after each are its digits 1..9.
DecimalZeros ==
    { 48, 1632, 1776, 1984, 2406, 2534, 2662, 2790, 2918, 3046, 3174, 3302,
      3430, 3558, 3664, 3792, 3872, 4160, 4240, 6112, 6160, 6470, 6608, 6784,
      6800, 6992, 7088, 7232, 7248, 42528, 43216, 43264, 43472, 43504, 43600,
      44016, 65296, 66720, 68912, 69734, 69872, 69942, 70096, 70384, 70736,
      70864, 71248, 71360, 71472, 71904, 72016, 72784, 73040, 73120, 92768,
      92864, 93008, 120782, 120792, 120802, 120812, 120822, 123200, 123632,
      125264, 130032 }

\* int(c) for a one-character string c: the digit value of any decimal digit
\* character, ASCII or not; -1 stands for ValueError.
IntOf(c) ==
    IF \E z \in DecimalZeros : c \in z..(z + 9)
    THEN c - (CHOOSE z \in DecimalZeros : c \in z..(z + 9))
    ELSE -1

\* sudoku.py:46-71: the list cols of (name, index) pairs; ctr is the number of
\* columns the earlier families and the earlier passes of the loop have made.
SudokuCols(d) ==
    LET dimsq == d * d
        rowCov == Flatten([a \in 1..dimsq |->
                     [j \in 1..dimsq |->
                        << <<"r", a - 1, j>>, (a - 1) * dimsq + j - 1 >>]])
        colCov == Flatten([a \in 1..dimsq |->
                     [j \in 1..dimsq |->
                        << <<"c", a - 1, j>>,
                           dimsq * dimsq + (a - 1) * dimsq + j - 1 >>]])
        gridCov == Flatten([a \in 1..dimsq |->
                     [j \in 1..dimsq |->
                        << <<"g", (a - 1) \div d, (a - 1) % d, j>>,
                           2 * dimsq * dimsq + (a - 1) * dimsq + j - 1 >>]])
        entCov == Flatten([a \in 1..dimsq |->
                     [j \in 1..dimsq |->
                        << <<"e", a - 1, j - 1>>,
                           3 * dimsq * dimsq + (a - 1) * dimsq + (j - 1) >>]])
    IN  rowCov \o colCov \o gridCov \o entCov

\* sudoku.py:74: sdict[name]
SDict(cols, name) == (CHOOSE p \in Range(cols) : p[1] = name)[2]

\* SudokuRow with the subgrid taken from (a // dim, b % dim).
SudokuRowWrongSubgrid(d, cols, a, b, c) ==
    << SDict(cols, <<"r", a, c>>), SDict(cols, <<"c", b, c>>),
       SDict(cols, <<"g", a \div d, b % d, c>>), SDict(cols, <<"e", a, b>>) >>

\* sudoku.py:85: the columns of the row "cell (a, b) holds c".
SudokuRow(d, cols, a, b, c) ==
    << SDict(cols, <<"r", a, c>>), SDict(cols, <<"c", b, c>>),
       SDict(cols, <<"g", a \div d, b \div d, c>>), SDict(cols, <<"e", a, b>>) >>

\* sudoku.py:82-87: the triple (a, b, c) of the n-th appendRow (n from 0).
SudokuLabel(d, n) ==
    LET dimsq == d * d
    IN  << n \div (dimsq * dimsq), (n \div dimsq) % dimsq, (n % dimsq) + 1 >>

\* sudoku.py:82-87: all rows, in the order they are appended.
SudokuRows(d) ==
    LET cols == SudokuCols(d)
    IN  [n \in 1..(d * d * d * d * d * d) |->
            LET l == SudokuLabel(d, n - 1)
            IN  SudokuRow(d, cols, l[1], l[2], l[3])]

\* sudoku.py:86: rowdict, as the set of its keys and the lookup.
HasRow(names, key) == \E n \in 1..Len(names) : names[n] = key
RowDict(names, key) == (CHOOSE n \in 1..Len(names) : names[n] = key) - 1

\* createSolutionGrid writing solgrid[j][i] in place of solgrid[i][j].
createSolutionGridTransposed(s) ==
    LET dimsq == dim * dim
        at(a, b) == {n \in 1..Len(s) : N[s[n] + 1][1] = b /\ N[s[n] + 1][2] = a}
    IN  [a \in 1..dimsq |-> [b \in 1..dimsq |->
            IF at(a - 1, b - 1) = {} THEN 0
            ELSE N[s[CHOOSE n \in at(a - 1, b - 1) :
                         \A m \in at(a - 1, b - 1) : m <= n] + 1][3]]]

\* sudoku.py:96-104; the '0' a cell starts with is written 0.
createSolutionGrid(s) ==
    LET dimsq == dim * dim
        last(a, b) == CHOOSE n \in 1..Len(s) :
                         /\ N[s[n] + 1][1] = a /\ N[s[n] + 1][2] = b
                         /\ \A m \in (n + 1)..Len(s) :
                                ~(N[s[m] + 1][1] = a /\ N[s[m] + 1][2] = b)
        has(a, b) == \E n \in 1..Len(s) : N[s[n] + 1][1] = a /\ N[s[n] + 1][2] = b
    IN  [a \in 1..dimsq |-> [b \in 1..dimsq |->
            IF has(a - 1, b - 1) THEN N[s[last(a - 1, b - 1)] + 1][3] ELSE 0]]

\* checkSudoku without the loop over the subgrids.
checkSudokuNoSubgrids(g, d) ==
    LET dimsq == d * d
        perm == 1..dimsq
    IN  IF \E a \in 0..(dimsq - 1) : Range(g[a + 1]) # perm THEN FALSE
        ELSE IF \E a \in 0..(dimsq - 1) : {g[r][a + 1] : r \in 1..Len(g)} # perm
        THEN FALSE
        ELSE TRUE

\* sudoku.py:121-148
checkSudoku(g, d) ==
    LET dimsq == d * d
        perm == 1..dimsq
        rowFails(a) == Range(g[a + 1]) # perm
        colFails(a) == {g[r][a + 1] : r \in 1..Len(g)} # perm
        subFails(a, b) ==
            Range(Flatten([c \in 1..d |->
                     SubSeq(g[a * d + (c - 1) + 1], b * d + 1, b * d + d)])) # perm
    IN  IF \E a \in 0..(dimsq - 1) : rowFails(a) THEN FALSE
        ELSE IF \E a \in 0..(dimsq - 1) : colFails(a) THEN FALSE
        ELSE IF \E a \in 0..(d - 1) : \E b \in 0..(d - 1) : subFails(a, b) THEN FALSE
        ELSE TRUE

----------------------------------------------------------------------------
\* The state before any constructor has run.

NoInstance ==
    /\ columns = <<>> /\ rows = <<>> /\ N = <<>>
    /\ rowsByLexOrder = <<>> /\ fixedBlocks = <<>>
    /\ block = <<>> /\ i = 0 /\ forcedBlocks = <<>>
    /\ partialsolution = <<>> /\ stack = <<>>
    /\ nsol = 0 /\ sol = <<>>

NoInstanceNext ==
    /\ columns' = <<>> /\ rows' = <<>> /\ N' = <<>>
    /\ rowsByLexOrder' = <<>> /\ fixedBlocks' = <<>>
    /\ block' = <<>> /\ i' = 0 /\ forcedBlocks' = <<>>
    /\ partialsolution' = <<>> /\ stack' = <<>>
    /\ nsol' = 0 /\ sol' = <<>>

inputVars == <<mode, t, v, k, fixings, dim, board, grid, result>>
historyVars == <<runs, prev>>
consumerVars == <<nsol, sol>>
fixVars == <<fixedBlocks, block, i, forcedBlocks>>
instanceVars == <<columns, rows, N, rowsByLexOrder>>

----------------------------------------------------------------------------
\* DesignDLX.__init__

DesignT == 0..3
DesignK == 2..4
DesignV == 2..MaxV

DesignInit ==
    /\ mode = "design" /\ pc = "start"
    /\ t \in DesignT /\ v \in DesignV /\ k \in DesignK /\ fixings \in BOOLEAN
    /\ dim = 0 /\ board = <<>> /\ grid = <<>> /\ result = FALSE
    /\ runs = 1 /\ prev = [f \in BOOLEAN |-> -1]
    /\ NoInstance

\* design.py:54-74: columns, rows, the engine set up, the rows appended.
DesignConstruct ==
    /\ mode = "design" /\ pc = "start"
    /\ columns' = LET cs == DesignColumns(t, v)
                  IN  [n \in 1..Len(cs) |-> <<cs[n], "primary">>]
    /\ rows' = DesignRows(t, v, k)
    /\ N' = [n \in 1..Len(rows') |-> "None"]
    /\ rowsByLexOrder' = [n \in 1..Len(rows') |-> n - 1]
    /\ fixedBlocks' = <<>>
    /\ IF fixings
       THEN /\ i' = 0
            /\ block' = InitialBlock(t, k)
            /\ pc' = "fix"
       ELSE /\ UNCHANGED <<i, block>>
            /\ pc' = "search"
    /\ UNCHANGED <<forcedBlocks, partialsolution, stack>>
    /\ UNCHANGED <<inputVars, historyVars, consumerVars>>

\* design.py:75-85: one pass of the loop over the horizontal blocks; i moves
\* on only when neither rank nor the row lookup raised.  The loop never ends
\* when k - t + 1 <= 0; the model follows it for MaxIter passes.
FixHorizontal ==
    /\ mode = "design" /\ pc = "fix"
    /\ HorizontalGuard(t, v, k, i)
    /\ i < MaxIter
    /\ block' = HorizontalBlock(t, k, i, block)
    /\ ForceBlock(block', "fix")
    /\ i' = IF pc' = "fix" THEN i + 1 ELSE i
    /\ UNCHANGED <<instanceVars, stack>>
    /\ UNCHANGED <<inputVars, historyVars, consumerVars>>

\* design.py:89-92: the vertical block.  The comprehension's i is the
\* function's i (Python 2), left at its last value.
FixVertical ==
    /\ mode = "design" /\ pc = "fix"
    /\ ~HorizontalGuard(t, v, k, i)
    /\ block' = VerticalBlock(t, k, block)
    /\ ForceBlock(block', "search")
    /\ i' = IF k - t + 2 > 0 THEN k - t + 1 ELSE i
    /\ UNCHANGED <<instanceVars, stack>>
    /\ UNCHANGED <<inputVars, historyVars, consumerVars>>

----------------------------------------------------------------------------
\* DLX.solve(), consumed by `for sol in d.solve()`.

\* A level deeper: branch on a column, take its first row.
Descend ==
    /\ pc = "search"
    /\ Uncovered(partialsolution) # {}
    /\ Candidates(partialsolution) # <<>>
    /\ stack' = Append(stack, [cands |-> Candidates(partialsolution), pos |-> 1])
    /\ partialsolution' = Append(partialsolution, Candidates(partialsolution)[1])
    /\ UNCHANGED pc
    /\ UNCHANGED <<instanceVars, fixVars, inputVars, historyVars, consumerVars>>

\* A primary column no open row covers.
DeadEnd ==
    /\ pc = "search"
    /\ Uncovered(partialsolution) # {}
    /\ Candidates(partialsolution) = <<>>
    /\ pc' = "backtrack"
    /\ UNCHANGED <<partialsolution, stack>>
    /\ UNCHANGED <<instanceVars, fixVars, inputVars, historyVars, consumerVars>>

\* Every primary column covered: the solution is yielded.
Yield ==
    /\ pc = "search"
    /\ Uncovered(partialsolution) = {}
    /\ sol' = partialsolution
    /\ nsol' = nsol + 1
    /\ pc' = "backtrack"
    /\ UNCHANGED <<partialsolution, stack>>
    /\ UNCHANGED <<instanceVars, fixVars, inputVars, historyVars>>

\* The next row of the current level.
Advance ==
    /\ pc = "backtrack"
    /\ stack # <<>>
    /\ stack[Len(stack)].pos < Len(stack[Len(stack)].cands)
    /\ LET top == stack[Len(stack)]
       IN  /\ stack' = [stack EXCEPT ![Len(stack)].pos = top.pos + 1]
           /\ partialsolution' =
                  [partialsolution EXCEPT ![Len(partialsolution)] =
                                              top.cands[top.pos + 1]]
    /\ pc' = "search"
    /\ UNCHANGED <<instanceVars, fixVars, inputVars, historyVars, consumerVars>>

\* The current level is exhausted.
Pop ==
    /\ pc = "backtrack"
    /\ stack # <<>>
    /\ stack[Len(stack)].pos >= Len(stack[Len(stack)].cands)
    /\ stack' = SubSeq(stack, 1, Len(stack) - 1)
    /\ partialsolution' = SubSeq(partialsolution, 1, Len(partialsolution) - 1)
    /\ UNCHANGED pc
    /\ UNCHANGED <<instanceVars, fixVars, inputVars, historyVars, consumerVars>>

\* solve() is exhausted.
Finish ==
    /\ pc = "backtrack"
    /\ stack = <<>>
    /\ pc' = "done"
    /\ UNCHANGED <<partialsolution, stack>>
    /\ UNCHANGED <<instanceVars, fixVars, inputVars, historyVars, consumerVars>>

\* The program is run again on the same t, v, k (a design) or the same board
\* (a Sudoku): a new instance, the earlier run's count kept for comparison.
Rebuild ==
    /\ pc = "done"
    /\ runs < MaxRuns
    /\ runs' = runs + 1
    /\ prev' = [prev EXCEPT ![fixings] = nsol]
    /\ fixings' \in (IF mode = "design" THEN BOOLEAN ELSE {FALSE})
    /\ pc' = "start"
    /\ NoInstanceNext
    /\ UNCHANGED <<mode, t, v, k, dim, board, grid, result>>

Search == Descend \/ DeadEnd \/ Yield \/ Advance \/ Pop \/ Finish

DesignNext == DesignConstruct \/ FixHorizontal \/ FixVertical \/ Search \/ Rebuild

SpecDesign == DesignInit /\ [][DesignNext]_vars

----------------------------------------------------------------------------
\* DLXsudoku.__init__

\* A completed d*d by d*d board, as a grid of integers.
BaseGrid(d) ==
    [a \in 1..(d * d) |-> [b \in 1..(d * d) |->
        ((d * ((a - 1) % d) + ((a - 1) \div d) + (b - 1)) % (d * d)) + 1]]

\* The board string of a grid, the cells at the positions B (from 1) blank.
BoardOf(g, B) ==
    LET dimsq == Len(g)
    IN  [n \in 1..(dimsq * dimsq) |->
            IF n \in B THEN Chr[0]
            ELSE Chr[g[((n - 1) \div dimsq) + 1][((n - 1) % dimsq) + 1]]]

\* The positions that are blanked: up to MaxBlanks of these.
BlankCells(d) == IF d = 2 THEN 1..8 ELSE {1, 2, 11, 41, 81}

GoodBoards(d) ==
    {BoardOf(BaseGrid(d), B) :
        B \in {S \in SUBSET BlankCells(d) : Cardinality(S) <= MaxBlanks}}
    \cup (IF d = 2
          THEN { [n \in 1..16 |-> Chr[0]],
                 BoardOf(BaseGrid(2), (1..16) \ {1, 2, 9, 16}),
                 [n \in 1..16 |-> IF n <= 3 THEN Chr[n]
                                  ELSE IF n = 12 THEN Chr[4] ELSE Chr[0]] }
          ELSE {})

\* Boards outside the documented format: too short, too long, a character
\* that is no digit ('x', 120), a digit above dim^2, a digit that is not ASCII
\* (ARABIC-INDIC DIGIT THREE, 1635), a zero that is not ASCII (FULLWIDTH DIGIT
\* ZERO, 65296).
BadBoards ==
    LET b == BoardOf(BaseGrid(2), {1, 2})
    IN  { SubSeq(b, 1, 15), b \o <<Chr[1]>>, [b EXCEPT ![3] = 120],
          [b EXCEPT ![2] = Chr[5]], [b EXCEPT ![16] = Chr[0]] \o <<120, Chr[7]>>,
          [b EXCEPT ![3] = 1635], [b EXCEPT ![1] = 65296],
          [n \in 1..16 |-> IF n = 1 THEN 1635 ELSE Chr[0]] }

SudokuDims == {2, 3}

SudokuInit ==
    /\ mode = "sudoku" /\ pc = "start"
    /\ dim \in SudokuDims
    /\ board \in GoodBoards(dim) \cup (IF dim = 2 THEN BadBoards ELSE {})
    /\ t = 0 /\ v = 0 /\ k = 0 /\ fixings = FALSE
    /\ grid = <<>> /\ result = FALSE
    /\ runs = 1 /\ prev = [f \in BOOLEAN |-> -1]
    /\ NoInstance

\* sudoku.py:45-87: the columns, the engine set up, the rows appended.
SudokuConstruct ==
    /\ mode = "sudoku" /\ pc = "start"
    /\ columns' = LET cols == SudokuCols(dim)
                  IN  [n \in 1..Len(cols) |-> <<cols[n][1], "primary">>]
    /\ rows' = SudokuRows(dim)
    /\ N' = [n \in 1..Len(rows') |-> SudokuLabel(dim, n - 1)]
    /\ i' = 0
    /\ pc' = "clues"
    /\ UNCHANGED <<rowsByLexOrder, fixedBlocks, block, forcedBlocks,
                   partialsolution, stack>>
    /\ UNCHANGED <<inputVars, historyVars, consumerVars>>

\* sudoku.py:91-93: one pass of the loop over the cells of the board; after
\* the last pass the constructor returns and solve() starts.
Preload ==
    /\ mode = "sudoku" /\ pc = "clues"
    /\ LET dimsq == dim * dim
           key == <<i \div dimsq, i % dimsq, IntOf(board[i + 1])>>
           after == IF i + 1 < dimsq * dimsq THEN "clues" ELSE "search"
       IN  IF i >= Len(board)
           THEN pc' = "IndexError" /\ UNCHANGED <<i, partialsolution>>
           ELSE IF board[i + 1] = Chr[0]
           THEN pc' = after /\ i' = i + 1 /\ UNCHANGED partialsolution
           ELSE IF IntOf(board[i + 1]) = -1
           THEN pc' = "ValueError" /\ UNCHANGED <<i, partialsolution>>
           ELSE IF ~HasRow(N, key)
           THEN pc' = "KeyError" /\ UNCHANGED <<i, partialsolution>>
           ELSE /\ partialsolution' = UseRow(partialsolution, RowDict(N, key))
                /\ i' = i + 1
                /\ pc' = after
    /\ UNCHANGED <<instanceVars, fixedBlocks, block, forcedBlocks, stack>>
    /\ UNCHANGED <<inputVars, historyVars, consumerVars>>

SudokuNext == SudokuConstruct \/ Preload \/ Search \/ Rebuild

SpecSudoku == SudokuInit /\ [][SudokuNext]_vars

----------------------------------------------------------------------------
\* checkSudoku called on a grid.

\* g with the cells of E (a function from positions, from 1) overwritten.
Edited(g, E) ==
    LET dimsq == Len(g)
    IN  [a \in 1..dimsq |-> [b \in 1..dimsq |->
            IF (a - 1) * dimsq + b \in DOMAIN E
            THEN E[(a - 1) * dimsq + b] ELSE g[a][b]]]

\* Grids to start from: a Sudoku; a Latin square whose subgrids fail; rows and
\* subgrids right and columns wrong; columns and subgrids right and rows wrong.
CheckBases(d) ==
    LET dimsq == d * d
    IN  { BaseGrid(d),
          [a \in 1..dimsq |-> [b \in 1..dimsq |-> ((a + b - 2) % dimsq) + 1]],
          [a \in 1..dimsq |-> BaseGrid(d)[((a - 1) % d) + 1]],
          [a \in 1..dimsq |-> [b \in 1..dimsq |-> BaseGrid(d)[((b - 1) % d) + 1][a]]] }

\* The subsets of S of at most m elements.
RECURSIVE SmallSubsets(_, _)
SmallSubsets(S, m) ==
    IF m = 0 THEN {{}}
    ELSE LET smaller == SmallSubsets(S, m - 1)
         IN  smaller \cup {P \cup {x} : P \in smaller, x \in S}

\* The cells a grid is edited at: at most MaxEdits of them (one when d = 3).
EditSets(d) == SmallSubsets(1..(d * d * d * d), IF d = 2 THEN MaxEdits ELSE 1)

CheckInit ==
    /\ mode = "check" /\ pc = "start"
    /\ dim \in {1, 2, 3}
    /\ \E g \in CheckBases(dim) : \E S \in EditSets(dim) :
          \E E \in [S -> 0..(dim * dim)] : grid = Edited(g, E)
    /\ result = FALSE
    /\ t = 0 /\ v = 0 /\ k = 0 /\ fixings = FALSE /\ board = <<>>
    /\ runs = 1 /\ prev = [f \in BOOLEAN |-> -1]
    /\ NoInstance

\* sudoku.py:121-148, called on grid.
Check ==
    /\ mode = "check" /\ pc = "start"
    /\ result' = checkSudoku(grid, dim)
    /\ pc' = "checked"
    /\ UNCHANGED <<mode, t, v, k, fixings, dim, board, grid>>
    /\ UNCHANGED <<instanceVars, fixVars, partialsolution, stack,
                   historyVars, consumerVars>>

CheckNext == Check

SpecCheck == CheckInit /\ [][CheckNext]_vars

----------------------------------------------------------------------------
\* All three programs together.

Init == DesignInit \/ SudokuInit \/ CheckInit

Next == DesignNext \/ SudokuNext \/ CheckNext

Spec == Init /\ [][Next]_vars


----------------------------------------------------------------------------
\* Vocabulary of the properties.

\* The list s holds each of 1..n exactly once.
IsPermutation(s, n) ==
    /\ Len(s) = n
    /\ \A x \in 1..n : Cardinality({j \in 1..n : s[j] = x}) = 1

\* Every row, column and d by d subgrid of g is a permutation of 1..d*d.
IsSudoku(g, d) ==
    LET dimsq == d * d
    IN  /\ \A a \in 1..dimsq : IsPermutation(g[a], dimsq)
        /\ \A b \in 1..dimsq : IsPermutation([a \in 1..dimsq |-> g[a][b]], dimsq)
        /\ \A ga \in 0..(d - 1) : \A gb \in 0..(d - 1) :
              IsPermutation([n \in 1..dimsq |->
                  g[ga * d + ((n - 1) \div d) + 1][gb * d + ((n - 1) % d) + 1]], dimsq)

\* The board has the documented format: dim^4 characters, each an ASCII digit
\* of 0..dim^2.
WellFormed(b, d) ==
    /\ Len(b) = d * d * d * d
    /\ \A n \in 1..Len(b) : b[n] \in {Chr[x] : x \in 0..(d * d)}

Blanks(b) == {n \in 1..Len(b) : b[n] = Chr[0]}

\* The grid of a well-formed board, blank cells 0.
ClueGrid(b, d) ==
    [a \in 1..(d * d) |-> [c \in 1..(d * d) |-> IntOf(b[(a - 1) * d * d + c])]]

\* The values open at cell (a, c) of g (from 1): those no filled cell of its
\* row, column or subgrid holds.
OpenValues(g, d, a, c) ==
    LET dimsq == d * d
        seen == {g[a][x] : x \in 1..dimsq} \cup {g[x][c] : x \in 1..dimsq}
                \cup {g[((a - 1) \div d) * d + x][((c - 1) \div d) * d + y] :
                         x, y \in 1..d}
    IN  (1..dimsq) \ seen

\* The valid completions of a grid whose blank cells are 0, found cell by
\* cell: a blank cell with the fewest open values takes each of them in turn.
RECURSIVE CompletionsOf(_, _)
CompletionsOf(g, d) ==
    LET dimsq == d * d
        blank == {p \in (1..dimsq) \X (1..dimsq) : g[p[1]][p[2]] = 0}
    IN  IF blank = {} THEN (IF IsSudoku(g, d) THEN {g} ELSE {})
        ELSE LET open == [p \in blank |-> OpenValues(g, d, p[1], p[2])]
                 cell == CHOOSE p \in blank :
                            \A q \in blank :
                               Cardinality(open[p]) <= Cardinality(open[q])
                 a == cell[1]
                 c == cell[2]
             IN  UNION {CompletionsOf([r \in 1..dimsq |-> [q \in 1..dimsq |->
                                  IF r = a /\ q = c THEN x ELSE g[r][q]]], d) :
                           x \in open[cell]}

\* The valid completions of a well-formed board.
Completions(b, d) == CompletionsOf(ClueGrid(b, d), d)

AllBlank == [n \in 1..16 |-> Chr[0]]

ValidDesignParams == 1 <= t /\ t < k /\ k <= v

SubsetsOfSize(S, m) == {T \in SUBSET S : Cardinality(T) = m}

\* The rows rs decode to a t-(v,k,1) design: every block a k-subset of the
\* points, every t-subset of the points in exactly one block.
IsDesign(rs) ==
    /\ \A r \in rs : DecodeBlock(r) \in SubsetsOfSize(0..(v - 1), k)
    /\ \A T \in SubsetsOfSize(0..(v - 1), t) :
          Cardinality({r \in rs : T \subseteq DecodeBlock(r)}) = 1

Fano == mode = "design" /\ t = 2 /\ v = 7 /\ k = 3

\* Lexicographic order of two lists of the same length.
LexLess(a, b) ==
    \E n \in 1..Len(a) : a[n] < b[n] /\ \A m \in 1..(n - 1) : a[m] = b[m]

----------------------------------------------------------------------------
\* C1: a well-formed board with exactly one valid completion yields exactly
\* one solution; its decoded grid is that completion, cell for cell, and
\* passes checkSudoku.
C1_UniqueCompletionFound ==
    (/\ mode = "sudoku" /\ pc = "done"
     /\ WellFormed(board, dim)
     /\ Cardinality(Completions(board, dim)) = 1)
    => /\ nsol = 1
       /\ createSolutionGrid(sol) \in Completions(board, dim)
       /\ \A n \in 1..Len(board) :
             board[n] # Chr[0] =>
                createSolutionGrid(sol)[((n - 1) \div (dim * dim)) + 1]
                                       [((n - 1) % (dim * dim)) + 1]
                    = IntOf(board[n])
       /\ checkSudoku(createSolutionGrid(sol), dim) = TRUE

C1_Witness ==
    /\ mode = "sudoku" /\ pc = "done" /\ dim = 3
    /\ Cardinality(Blanks(board)) = 4
    /\ Cardinality(Completions(board, dim)) = 1
    /\ nsol = 1

\* C2: the all-blank dim = 2 board yields a positive number of solutions, the
\* same number on a rebuild, and every solution passes checkSudoku.
C2_BlankBoard ==
    (mode = "sudoku" /\ dim = 2 /\ board = AllBlank)
    => /\ nsol > 0 => checkSudoku(createSolutionGrid(sol), 2) = TRUE
       /\ pc = "done" => nsol > 0
       /\ (pc = "done" /\ prev[FALSE] >= 0) => nsol = prev[FALSE]

C2_Witness ==
    /\ mode = "sudoku" /\ dim = 2 /\ board = AllBlank
    /\ pc = "done" /\ runs = 2 /\ nsol = 288 /\ prev[FALSE] = 288

\* C3: checkSudoku returns True exactly when every row, column and subgrid of
\* the grid is a permutation of 1..dim^2.
C3_CheckIffPermutations ==
    (mode = "check" /\ pc = "checked") => (result = TRUE <=> IsSudoku(grid, dim))

C3_Witness ==
    /\ mode = "check" /\ pc = "checked" /\ dim = 2
    /\ result = FALSE
    /\ \A a \in 1..4 : IsPermutation(grid[a], 4)
    /\ \A b \in 1..4 : IsPermutation([a \in 1..4 |-> grid[a][b]], 4)

\* C4: with valid parameters, every block the fixer ranks and forces is a
\* k-subset of 0..v-1 (increasing, k long, in range).
C4_FixedBlocksAreKSubsets ==
    (mode = "design" /\ ValidDesignParams)
    => \A n \in 1..Len(forcedBlocks) : IsKSubset(v, k, forcedBlocks[n])

\* C5: with valid parameters, no two fixed blocks share t or more points.
C5_FixedBlocksConsistent ==
    (mode = "design" /\ ValidDesignParams)
    => \A n \in 1..Len(forcedBlocks) : \A m \in 1..(n - 1) :
          Cardinality(Range(forcedBlocks[n]) \cap Range(forcedBlocks[m])) < t

\* C6: for (2,7,3) without fixings every solution decodes to 7 blocks, each a
\* 3-subset of the 7 points, every pair of points in exactly one block.
C6_FanoSolutions ==
    (Fano /\ ~fixings /\ nsol > 0)
    => /\ Len(sol) = 7
       /\ Cardinality({DecodeBlock(sol[n]) : n \in 1..Len(sol)}) = 7
       /\ IsDesign(Range(sol))

C6_Witness == Fano /\ ~fixings /\ pc = "done" /\ nsol = 30

\* C7: for (2,7,3) the run with fixings yields no more solutions than the run
\* without, and each of its solutions, forced rows included, is a design.
C7_FixingsReduce ==
    Fano
    => /\ (pc = "done" /\ fixings /\ prev[FALSE] >= 0) => nsol <= prev[FALSE]
       /\ (pc = "done" /\ ~fixings /\ prev[TRUE] >= 0) => prev[TRUE] <= nsol
       /\ (fixings /\ nsol > 0)
          => IsDesign(Range(sol) \cup
                 {rowsByLexOrder[fixedBlocks[n] + 1] : n \in 1..Len(fixedBlocks)})

C7_Witness ==
    Fano /\ pc = "done" /\ fixings /\ prev[FALSE] = 30 /\ nsol = 1
    /\ Len(fixedBlocks) = 4

\* C8: parameters outside 1 <= t < k <= v fail with an InputValidationError
\* before any column is declared, any row appended or any row forced.
C8_InvalidParamsFailFast ==
    (mode = "design" /\ ~ValidDesignParams /\ pc # "start")
    => /\ pc = "InputValidationError"
       /\ columns = <<>> /\ rows = <<>> /\ partialsolution = <<>>

\* C9: a board of the wrong length, or with a character that is no digit of
\* 0..dim^2, fails with an InputValidationError and no instance is built.
C9_MalformedBoardRejected ==
    (mode = "sudoku" /\ ~WellFormed(board, dim) /\ pc # "start")
    => /\ pc = "InputValidationError"
       /\ columns = <<>> /\ rows = <<>> /\ partialsolution = <<>>

\* C10: with valid parameters the columns are the t-subsets in lexicographic
\* order, rowsByLexOrder[r] is the row of the k-subset of rank r, and the row
\* of S covers exactly the ranks of the t-subsets of S: C(k,t) distinct
\* indices below C(v,t).
C10_DesignMatrix ==
    (mode = "design" /\ ValidDesignParams /\ pc # "start")
    => /\ Len(columns) = Binom(v, t)
       /\ \A c \in 1..Len(columns) :
             /\ IsKSubset(v, t, columns[c][1])
             /\ columns[c][2] = "primary"
             /\ c < Len(columns) => LexLess(columns[c][1], columns[c + 1][1])
       /\ Len(rowsByLexOrder) = Binom(v, k)
       /\ \A S \in SubsetsOfSize(0..(v - 1), k) :
             LET row == rows[rowsByLexOrder[Rank(v, SortedSeq(S)) + 1] + 1]
             IN  /\ Range(row) = {c \in 0..(Len(columns) - 1) :
                                     Range(columns[c + 1][1]) \subseteq S}
                 /\ Range(row) = {Rank(v, SortedSeq(T)) : T \in SubsetsOfSize(S, t)}
                 /\ Len(row) = Binom(k, t)
                 /\ Cardinality(Range(row)) = Binom(k, t)
                 /\ \A c \in Range(row) : c < Binom(v, t)

C10_Witness ==
    /\ mode = "design" /\ t = 2 /\ v = 7 /\ k = 4 /\ pc = "search"
    /\ Len(rows) = 35 /\ Len(columns) = 21

====
